---- MODULE Spec2Model ----
\* Verification model of the spectral kernel of Signal_Equalizer_Task3:
\*   backend/app/services/dsp/fft_processor.py  (FFTProcessor)
\*   backend/app/services/dsp/equalizer.py      (Equalizer)
\*
\* Numbers.  A real sample is an exact rational <<p, q>> (q > 0, lowest terms).
\* A complex value is an element of the cyclotomic field Q(w), w = exp(-2 pi i / RootOrder),
\* written as the sequence of its RootOrder/2 rational coordinates on 1, w, w^2, ...
\* (w^(RootOrder/2) = -1).  Every twiddle factor exp(-2 pi i j / length) of a transform
\* of length <= RootOrder is the power w^(j * RootOrder / length), so the transform
\* arithmetic of the model is exact.
EXTENDS Integers, Sequences, FiniteSets, TLC

\* pc: which call has returned; signal, signal_type, frequency_bands, sample_rate,
\* n_points: the arguments; signal_len: len(signal), the only thing the length-level
\* specification tracks of a buffer; params: the remaining keyword arguments of the
\* call (num_bands, min_freq, max_freq; window_size, hop_size); ret: the value the
\* last call returned (of each caller, when calls run concurrently).
\* instances: the attributes of the module-level FFTProcessor and Equalizer objects;
\* bufs: the arrays and lists on the heap, by reference; stack: the call stack of
\* each concurrent caller (the frames with their locals, innermost first).
\* rounding: on which side of its bound the float64 level_ratio of apply_equalizer
\* falls when the exact ratio is on the bound (see LevelRatioSquared)
\* pow_rounding: which of the two float64 that enclose the exact power np.power returns
\* (see PowLog10Ulps)
VARIABLES pc, signal, signal_len, signal_type, frequency_bands, sample_rate, n_points, params, ret,
          instances, bufs, stack, rounding, pow_rounding

vars == <<pc, signal, signal_len, signal_type, frequency_bands, sample_rate, n_points, params, ret,
          instances, bufs, stack, rounding, pow_rounding>>

args == <<signal, signal_len, signal_type, frequency_bands, sample_rate, n_points, params>>

\* what a call that runs alone, on arguments passed by value, leaves untouched
heap == <<instances, bufs, stack>>

\* ---------------------------------------------------------------- bounds
MaxLen == 4
MaxBands == 2
MaxShapeLen == 2050
MaxFreqLen == 16
MaxPoints == 4
MaxNumBands == 10
MaxGramLen == 12
MaxWindow == 4
MaxHop == 3
MaxConcLen == 4
MaxSpectrumLen == 3100
MaxReverseBits == 5

\* ---------------------------------------------------------------- integers
Abs(i) == IF i < 0 THEN -i ELSE i

RECURSIVE Gcd(_, _)
Gcd(a, b) == IF b = 0 THEN a ELSE Gcd(b, a % b)

RECURSIVE Pow2(_)
Pow2(e) == IF e <= 0 THEN 1 ELSE 2 * Pow2(e - 1)

\* n & (n - 1) == 0 for n >= 1: n has a single bit set
RECURSIVE SingleBit(_)
SingleBit(n) == IF n = 1 THEN TRUE ELSE IF n % 2 = 1 THEN FALSE ELSE SingleBit(n \div 2)

\* math.ceil(math.log2(n)) for n >= 1
RECURSIVE CeilLog2(_)
CeilLog2(n) == IF n <= 1 THEN 0 ELSE 1 + CeilLog2((n + 1) \div 2)

\* the sequence <<F(1), ..., F(n)>>
Tab(n, F(_)) == [i \in 1..n |-> F(i)]

\* ---------------------------------------------------------------- rationals
Rat(p, q) ==
    LET s == IF q < 0 THEN -1 ELSE 1
        g == Gcd(Abs(p), Abs(q))
    IN  <<(s * p) \div g, (s * q) \div g>>

R0 == <<0, 1>>
R1 == <<1, 1>>
RInt(i) == <<i, 1>>
\* sums and comparisons go through the least common denominator
RAdd(a, b) ==
    LET g == Gcd(a[2], b[2])
    IN  Rat(a[1] * (b[2] \div g) + b[1] * (a[2] \div g), (a[2] \div g) * b[2])
RNeg(a) == <<-a[1], a[2]>>
RSub(a, b) == RAdd(a, RNeg(b))
RMul(a, b) == Rat(a[1] * b[1], a[2] * b[2])
RDiv(a, b) == Rat(a[1] * b[2], a[2] * b[1])
RLt(a, b) == LET g == Gcd(a[2], b[2]) IN a[1] * (b[2] \div g) < b[1] * (a[2] \div g)
RLe(a, b) == LET g == Gcd(a[2], b[2]) IN a[1] * (b[2] \div g) <= b[1] * (a[2] \div g)
RAbs(a) == <<Abs(a[1]), a[2]>>

RECURSIVE RSumFrom(_, _)
RSumFrom(xs, i) == IF i > Len(xs) THEN R0 ELSE RAdd(xs[i], RSumFrom(xs, i + 1))
RSum(xs) == RSumFrom(xs, 1)

\* ---------------------------------------------------------------- complex values
\* order of the root of unity the complex values are written on: the longest
\* transform the bounded inputs need (at least 4, so that i itself is a power of w)
RootOrder == IF Pow2(CeilLog2(MaxLen)) < 4 THEN 4 ELSE Pow2(CeilLog2(MaxLen))
Half == RootOrder \div 2

\* a real value promoted to complex (astype(complex))
CReal(r) == Tab(Half, LAMBDA k : IF k = 1 THEN r ELSE R0)
CZero == CReal(R0)
CAdd(a, b) == Tab(Half, LAMBDA k : RAdd(a[k], b[k]))
CSub(a, b) == Tab(Half, LAMBDA k : RSub(a[k], b[k]))
CScale(a, r) == Tab(Half, LAMBDA k : RMul(a[k], r))
\* a * w^m
CMulW(a, m) ==
    Tab(Half, LAMBDA k :
        LET src == (k - 1 - m) % RootOrder
        IN  IF src < Half THEN a[src + 1] ELSE RNeg(a[src - Half + 1]))
\* np.conjugate: conj(w^k) = w^(-k) = -w^(Half - k)
CConj(a) == Tab(Half, LAMBDA k : IF k = 1 THEN a[1] ELSE RNeg(a[Half - k + 2]))
\* np.real: (a + conj a) / 2, still written on the powers of w
CRe(a) == CScale(CAdd(a, CConj(a)), Rat(1, 2))
IsRational(a) == \A k \in 2..Half : a[k] = R0

ToComplex(x) == Tab(Len(x), LAMBDA i : CReal(x[i]))

\* ---------------------------------------------------------------- FFTProcessor
\* np.pad(x, (0, k), 'constant')
PadRight(x, k) == x \o Tab(k, LAMBDA i : CZero)

\* the inner while loop of the bit reversal: while j >= bit: j -= bit; bit >>= 1
WhileJ_Once(j, bit) == IF j >= bit THEN <<j - bit, bit \div 2>> ELSE <<j, bit>>

RECURSIVE WhileJ(_, _)
WhileJ(j, bit) == IF j >= bit THEN WhileJ(j - bit, bit \div 2) ELSE <<j, bit>>

Swap(x, i, j) == [x EXCEPT ![i + 1] = x[j + 1], ![j + 1] = x[i + 1]]

\* one iteration of for i in range(1, n) (0-based i and j): the new j and buffer
BitReverseStep(x, i, j) ==
    LET jb == WhileJ(j, Len(x) \div 2)
        j2 == jb[1] + jb[2]
    IN  [j |-> j2, x |-> IF i < j2 THEN Swap(x, i, j2) ELSE x]

RECURSIVE BitReverseFrom(_, _, _)
BitReverseFrom(x, i, j) ==
    IF i >= Len(x) THEN x
    ELSE LET st == BitReverseStep(x, i, j)
         IN  BitReverseFrom(st.x, i + 1, st.j)

BitReverse(x) == BitReverseFrom(x, 1, 0)

\* one pass of the butterfly loops for a stage of size `length`
ButterflyStage(x, length) ==
    LET half_len == length \div 2
        step == RootOrder \div length
    IN  Tab(Len(x), LAMBDA p :
            LET j == (p - 1) % length
            IN  IF j < half_len
                THEN CAdd(x[p], CMulW(x[p + half_len], j * step))
                ELSE CSub(x[p - half_len], CMulW(x[p], (j - half_len) * step)))

RECURSIVE Stages(_, _)
Stages(x, length) == IF length > Len(x) THEN x ELSE Stages(ButterflyStage(x, length), 2 * length)

fft_iterative(x) == Stages(BitReverse(x), 2)

\* length of the buffer fft hands to fft_iterative
PaddedLen_NoPowerCheck(n) == 2 * Pow2(CeilLog2((n \div 2) + 1))

PaddedLen(n) == IF SingleBit(n) THEN n ELSE Pow2(CeilLog2(n))

fft(x) ==
    LET n == Len(x)
    IN  IF n <= 1 THEN x
        ELSE fft_iterative(PadRight(x, PaddedLen(n) - n))

\* conjugate, transform, conjugate, divide by n, keep the real part
ifft_NoConjugate(X) ==
    LET n == Len(X)
        x_fft == fft(X)
    IN  Tab(Len(x_fft), LAMBDA i : CRe(CScale(x_fft[i], Rat(1, n))))

\* np.conjugate(X)
Conjugated(X) == Tab(Len(X), LAMBDA i : CConj(X[i]))

\* np.real(np.conjugate(x_fft) / n)
ScaledReal(x_fft, n) == Tab(Len(x_fft), LAMBDA i : CRe(CScale(CConj(x_fft[i]), Rat(1, n))))

ifft(X) == ScaledReal(fft(Conjugated(X)), Len(X))

\* ---------------------------------------------------------------- numpy helpers
\* 2 cos(2 pi k / d) for the d where it is rational (d = 1, 2, 3, 4, 6)
TwoCos(k, d) ==
    CASE d = 1 -> 2
      [] d = 2 -> IF k % 2 = 0 THEN 2 ELSE -2
      [] d = 3 -> IF k % 3 = 0 THEN 2 ELSE -1
      [] d = 4 -> <<2, 0, -2, 0>>[(k % 4) + 1]
      [] d = 6 -> <<2, 1, -1, -2, -1, 1>>[(k % 6) + 1]

\* np.hanning(M): [] for M < 1, [1] for M = 1, else 0.5 + 0.5 cos(pi n / (M - 1)) for
\* n = 1-M, 3-M, ..., M-1, which is 0.5 - 0.5 cos(2 pi k / (M - 1)) for k = 0..M-1
hanning(M) ==
    IF M < 1 THEN <<>>
    ELSE IF M = 1 THEN <<R1>>
    ELSE Tab(M, LAMBDA i : Rat(2 - TwoCos(i - 1, M - 1), 4))

\* a / b element-wise followed by np.nan_to_num(nan=0, posinf=0, neginf=0):
\* x / 0 is +-inf or nan, all replaced by 0
DivideSanitized(a, b) ==
    Tab(Len(a), LAMBDA i :
        LET w == IF Len(b) = 1 THEN b[1] ELSE b[i]
        IN  IF w = R0 THEN R0 ELSE RDiv(a[i], w))

\* numpy refuses to combine two 1-D arrays of different lengths unless one has length 1
BroadcastRaises(m, n) == m # n /\ m # 1 /\ n # 1

\* np.max of an empty array raises ValueError
MaxRaises(n) == n = 0

\* round to nearest, ties to even, of num / den (num >= 0, den > 0)
RoundHalfEven(num, den) ==
    LET fl == num \div den
        rem == num % den
    IN  IF 2 * rem > den \/ (2 * rem = den /\ fl % 2 = 1) THEN fl + 1 ELSE fl

\* least k with p * 2^k >= q * 2^23 (p, q > 0, p / q < 2^24)
RECURSIVE MantissaShift(_, _, _)
MantissaShift(p, q, k) == IF p >= q * Pow2(23) THEN k ELSE MantissaShift(2 * p, q, k + 1)

\* astype(np.float32): the nearest value with a 24-bit mantissa (|r| < 2^24,
\* no subnormals)
Float32(r) ==
    IF r[1] = 0 THEN R0
    ELSE LET k == MantissaShift(Abs(r[1]), r[2], 0)
             m == RoundHalfEven(Abs(r[1]) * Pow2(k), r[2])
         IN  Rat((IF r[1] < 0 THEN -1 ELSE 1) * m, Pow2(k))

\* ---------------------------------------------------------------- Equalizer
WindowLimit == 2048

IsUnity(scale) == scale = R1

\* freqs = [(k * sample_rate) / n for k in range(n)], then
\* np.where(freqs > sample_rate / 2, freqs - sample_rate, freqs)
BinFrequency_Inclusive(k, n, sr) ==
    LET f == Rat(k * sr, n)
    IN  IF RLe(Rat(sr, 2), f) THEN RSub(f, RInt(sr)) ELSE f

BinFrequency(k, n, sr) ==
    LET f == Rat(k * sr, n)
    IN  IF RLt(Rat(sr, 2), f) THEN RSub(f, RInt(sr)) ELSE f

EqualizerFreqs(n, sr) == Tab(n, LAMBDA i : BinFrequency(i - 1, n, sr))

\* band['low_freq'], band['high_freq'], band['scale'] raise KeyError on a band
\* that lacks the key
WellFormed(band) == {"low_freq", "high_freq", "scale"} \subseteq DOMAIN band

\* pos_mask | neg_mask of one band at frequency f
InBand_PositiveOnly(band, f) ==
    /\ RLe(RInt(band.low_freq), f) /\ RLe(f, RInt(band.high_freq)) /\ RLe(R0, f)

InBand(band, f) ==
    \/ /\ RLe(RInt(band.low_freq), f) /\ RLe(f, RInt(band.high_freq)) /\ RLe(R0, f)
    \/ /\ RLe(f, RInt(-band.low_freq)) /\ RLe(RInt(-band.high_freq), f) /\ RLt(f, R0)

\* one iteration of the band loop on the loop state [err, output_freq, bands_applied]
BandStep_Multiply(st, band, freq_domain, freqs) ==
    IF st.err \/ ~WellFormed(band) THEN [st EXCEPT !.err = TRUE]
    ELSE IF IsUnity(band.scale) THEN st
    ELSE [err |-> FALSE,
          bands_applied |-> st.bands_applied + 1,
          output_freq |-> Tab(Len(freq_domain), LAMBDA i :
              IF InBand(band, freqs[i]) THEN CScale(st.output_freq[i], band.scale)
              ELSE st.output_freq[i])]

BandStep(st, band, freq_domain, freqs) ==
    IF st.err \/ ~WellFormed(band) THEN [st EXCEPT !.err = TRUE]
    ELSE IF IsUnity(band.scale) THEN st
    ELSE [err |-> FALSE,
          bands_applied |-> st.bands_applied + 1,
          output_freq |-> Tab(Len(freq_domain), LAMBDA i :
              IF InBand(band, freqs[i]) THEN CScale(freq_domain[i], band.scale)
              ELSE st.output_freq[i])]

RECURSIVE BandLoop(_, _, _, _, _)
BandLoop(st, bands, b, freq_domain, freqs) ==
    IF b > Len(bands) THEN st
    ELSE BandLoop(BandStep(st, bands[b], freq_domain, freqs), bands, b + 1, freq_domain, freqs)

\* "Ensure proper length": cut to original_length, or pad with zeros up to it
FitLength(x, n) ==
    IF Len(x) > n THEN SubSeq(x, 1, n)
    ELSE IF Len(x) < n THEN x \o Tab(n - Len(x), LAMBDA i : R0)
    ELSE x

SumSquares(x) == RSum(Tab(Len(x), LAMBDA i : RMul(x[i], x[i])))

\* The code tests 0.1 < level_ratio < 10 on the float64 quotient of two float64
\* roots of float64 means.  Where the exact ratio is off the bounds the float64
\* test and the exact test agree (a ratio of rationals this small is not within
\* a few float64 of a bound without being on it).  Where the exact ratio is 10 or
\* 0.1 the float64 one is the bound or a neighbour of it, by roundings the exact
\* arithmetic does not follow: either outcome of the test can be the code's.
Roundings == {"inside", "outside"}

\* the square of level_ratio = original_rms / processed_rms when the code applies
\* it (both rms > 0 and 0.1 < level_ratio < 10), and 1 when it does not
LevelRatioSquared(sig, processed) ==
    LET so == SumSquares(sig)
        sp == SumSquares(processed)
    IN  IF RLt(R0, sp) /\ RLt(R0, so)
        THEN LET q == RDiv(so, sp)
             IN  IF RLt(Rat(1, 100), q) /\ RLt(q, RInt(100)) THEN q
                 ELSE IF q \in {Rat(1, 100), RInt(100)} /\ rounding = "inside" THEN q
                 ELSE R1
        ELSE R1

\* np.max(np.abs(processed_signal * level_ratio)) > 0.95, on the squares
PeakExceeds(processed, level2) ==
    \E i \in 1..Len(processed) :
        RLt(Rat(361, 400), RMul(RMul(processed[i], processed[i]), level2))

\* The value apply_equalizer returns.  kind is "ok" (the return at the end of the
\* try block), "fallback" (the return of the except block) or "raised" (an
\* exception leaves the call).  Sample i of the returned float32 array is
\*     limited:      float32(tanh(samples[i] * sqrt(level2) * 0.9) * 0.95)
\*     not limited:  float32(samples[i] * sqrt(level2))
\* at is the statement that raised ("return" when none did); the loop's locals are
\* kept for the calls that ran the band loop to its end.
Outcome(kind, at, samples, level2, limited, loc) ==
    [op |-> "apply_equalizer", kind |-> kind, at |-> at, samples |-> samples,
     level2 |-> level2, limited |-> limited, dtype |-> "float32", locals |-> loc]

NoLocals == [ran |-> FALSE]

\* except Exception: return signal.astype(np.float32)
Fallback(sig, at, loc) == Outcome("fallback", at, sig, R1, FALSE, loc)

\* np.hanning(original_length) times the signal for len(signal) < 2048, else a copy
WindowedSignal(sig) ==
    IF Len(sig) < WindowLimit
    THEN LET window == hanning(Len(sig)) IN Tab(Len(sig), LAMBDA i : RMul(sig[i], window[i]))
    ELSE sig

\* the loop state before the first band
LoopStart(freq_domain) == [err |-> FALSE, bands_applied |-> 0, output_freq |-> freq_domain]

\* the locals of the band loop the returned value carries
Locals(freqs, freq_domain, loop) ==
    [ran |-> TRUE, freqs |-> freqs, freq_domain |-> freq_domain,
     output_freq |-> loop.output_freq, bands_applied |-> loop.bands_applied]

\* the float64 array np.real leaves of an inverse transform
RealParts(inverse) ==
    Tab(Len(inverse), LAMBDA i : CHOOSE r \in {inverse[i][1]} : IsRational(inverse[i]))

\* the statements after the inverse transform: window compensation, length, level,
\* limiter and the return; raw is processed_signal, of raw_len samples
Finish(sig, raw, raw_len, loc) ==
    LET original_length == Len(sig)
        windowed == original_length < WindowLimit
        window == hanning(original_length)
        compensated == IF windowed THEN DivideSanitized(raw, window) ELSE raw
        processed == FitLength(compensated, original_length)
        level2 == LevelRatioSquared(sig, processed)
        limited == PeakExceeds(processed, level2)
    IN  IF windowed /\ BroadcastRaises(raw_len, original_length)
        THEN Fallback(sig, "divide", loc)
        ELSE IF MaxRaises(Len(processed)) THEN Fallback(sig, "max", loc)
        ELSE Outcome("ok", "return", processed, level2, limited, loc)

apply_equalizer(sig, sig_type, bands, sr) ==
    IF sig_type = "text_list"
    THEN \* np.array(signal, dtype=np.float64) raises; signal is still the list,
         \* which has no astype: the except block raises AttributeError
         Outcome("raised", "convert", <<>>, R1, FALSE, NoLocals)
    ELSE
    LET freq_domain == fft(ToComplex(WindowedSignal(sig)))
        freqs == EqualizerFreqs(Len(freq_domain), sr)
        loop == BandLoop(LoopStart(freq_domain), bands, 1, freq_domain, freqs)
        loc == Locals(freqs, freq_domain, loop)
        inverse == ifft(loop.output_freq)
        raw_len == IF loop.bands_applied > 0 THEN Len(inverse) ELSE Len(sig)
        raw == IF loop.bands_applied > 0 THEN RealParts(inverse) ELSE sig
    IN  IF loop.err THEN Fallback(sig, "bands", NoLocals)
        ELSE Finish(sig, raw, raw_len, loc)

\* ---------------------------------------------------------------- lengths
\* len(fft(x)) for len(x) = n
FftLen(n) == IF n <= 1 THEN n ELSE PaddedLen(n)

\* len(ifft(X)) for len(X) = n
IfftLen(n) == FftLen(n)

\* the length "Ensure proper length" leaves for a buffer of m samples
FittedLen_NoTruncate(m, n) == IF m < n THEN m + (n - m) ELSE m

FittedLen(m, n) == IF m > n THEN n ELSE IF m < n THEN m + (n - m) ELSE m

RECURSIVE CountApplied(_, _)
CountApplied(bands, b) ==
    IF b > Len(bands) THEN 0
    ELSE (IF IsUnity(bands[b].scale) THEN 0 ELSE 1) + CountApplied(bands, b + 1)

\* apply_equalizer on the lengths alone: how the call ends, at which statement, how
\* many samples it returns, and whether they are all finite.  content is "finite"
\* (every sample of the input a finite number) or "has_nan" (some sample NaN).  A
\* NaN survives every sum, product, quotient and tanh, makes np.max NaN, and fails
\* every comparison (so the level and limiter branches are not taken); only
\* np.nan_to_num, which the code calls after the window division, replaces it.
\* signal.astype(np.float32) of the fallback: a sample beyond the float32 range
\* becomes an infinity
Narrowed(content) == IF content = "overflows" THEN "has_inf" ELSE content

apply_equalizer_shape(original_length, sig_type, bands, content) ==
    IF sig_type = "text_list"
    THEN [kind |-> "raised", at |-> "convert", len |-> 0, content |-> "finite"]
    ELSE
    LET windowed == original_length < WindowLimit
        n == FftLen(original_length)
        malformed == \E b \in 1..Len(bands) : ~WellFormed(bands[b])
        raw_len == IF CountApplied(bands, 1) > 0 THEN IfftLen(n) ELSE original_length
        fitted == FittedLen(raw_len, original_length)
        applied == CountApplied(bands, 1) > 0
        \* line 77 clears NaN and infinities on the windowed path only; without it
        \* a NaN sample, or the NaN an overflowing transform leaves, is never
        \* greater than 0.95 and passes the limiter
        sanitized == IF windowed THEN "finite"
                     ELSE IF content = "has_nan" THEN "has_nan"
                     ELSE IF content = "overflows" /\ applied THEN "has_nan"
                     ELSE "finite"
        narrowed == Narrowed(content)
        Ended(kind, at, len, returned) ==
            [kind |-> kind, at |-> at, len |-> len,
             content |-> IF len = 0 THEN "finite" ELSE returned]
    IN  IF malformed THEN Ended("fallback", "bands", original_length, narrowed)
        ELSE IF windowed /\ BroadcastRaises(raw_len, original_length)
        THEN Ended("fallback", "divide", original_length, narrowed)
        ELSE IF MaxRaises(fitted)
        THEN Ended("fallback", "max", original_length, narrowed)
        ELSE Ended("ok", "return", fitted, sanitized)

\* ---------------------------------------------------------------- bin frequencies
\* np.fft.fftfreq(n, 1 / sr)[k]: the integers 0..(n-1)//2 then -(n//2)..-1, times sr / n
fftfreq(n, sr, k) ==
    LET N == ((n - 1) \div 2) + 1
    IN  IF k < N THEN Rat(k * sr, n) ELSE Rat((k - n) * sr, n)

TargetLength == 1024

\* step = max(1, len(signal) // target_length)
DecimationStep(len) ==
    LET d == len \div TargetLength
    IN  IF d > 1 THEN d ELSE 1

\* compute_fft_spectrum: the length left by signal[::step]
DecimatedLen(len) ==
    IF len > TargetLength
    THEN (len + DecimationStep(len) - 1) \div DecimationStep(len)
    ELSE len

\* the frequency each consumer gives to the bins it uses, as the set of
\* [consumer, n, k, f]: bin k of a transform of length n is given frequency f
EqualizerAssigns(len, sr) ==
    LET n == FftLen(len)
        freqs == EqualizerFreqs(n, sr)
    IN  {[consumer |-> "apply_equalizer", n |-> n, k |-> i - 1, f |-> freqs[i]] : i \in 1..n}

\* frequencies = np.fft.fftfreq(n, 1/sample_rate)[:n//2], then frequencies > 0
SpectrumAssigns(len, sr) ==
    LET n == FftLen(DecimatedLen(len))
    IN  IF DecimatedLen(len) = 0 THEN {}
        ELSE {[consumer |-> "compute_fft_spectrum", n |-> n, k |-> k, f |-> fftfreq(n, sr, k)] :
                 k \in {j \in 0..((n \div 2) - 1) : RLt(R0, fftfreq(n, sr, j))}}

\* get_frequency_bins: np.fft.fftfreq(signal_length, 1/sample_rate)[:signal_length//2];
\* fftfreq computes 1.0 / (n * d): on signal_length 0 it raises ZeroDivisionError,
\* which nothing catches, and no frequency is assigned
FrequencyBinsAssigns(signal_length, sr) ==
    IF signal_length = 0
    THEN [kind |-> "raised", error |-> "ZeroDivisionError", assigned |-> {}]
    ELSE [kind |-> "ok", error |-> "none",
          assigned |-> {[consumer |-> "get_frequency_bins", n |-> signal_length, k |-> k,
                         f |-> fftfreq(signal_length, sr, k)] :
                           k \in 0..((signal_length \div 2) - 1)}]

\* ---------------------------------------------------------------- frequency response
\* A float64 that is u representable values away from the rational r it was
\* computed for is written <<p, q, u>>; u = 0 is r itself.
Nudged(r, u) == IF u = 0 THEN r ELSE <<r[1], r[2], u>>
Ulps(a) == IF Len(a) = 3 THEN a[3] ELSE 0

\* a <= b on such values
FLe(a, b) == RLt(a, b) \/ (a[1] = b[1] /\ a[2] = b[2] /\ Ulps(a) <= Ulps(b))

\* floor(log2(p / q)), p, q > 0
RECURSIVE FloorLog2(_, _)
FloorLog2(p, q) ==
    IF p >= 2 * q THEN FloorLog2(p, 2 * q) + 1
    ELSE IF p < q THEN FloorLog2(2 * p, q) - 1
    ELSE 0

\* (r * 2^k) mod d
RECURSIVE Pow2Mod(_, _, _)
Pow2Mod(r, k, d) == IF k = 0 THEN r % d ELSE Pow2Mod((2 * r) % d, k - 1, d)

\* np.linspace computes point i as fl(fl(i * fl((stop - start) / (num - 1))) + start).
\* For a point whose exact value start + i (stop - start) / (num - 1) is an integer:
\* how many float64 values the computed point lies from it.  fl(step) is
\* step - rs / (d 2^k) with k = 52 - floor(log2(step)); the product is rounded at
\* the exponent of the exact product, the sum at the exponent of the exact point.
LinspaceUlps(start, stop, num, i) ==
    LET N == stop - start
        d == num - 1
        es == FloorLog2(N, d)
        r == Pow2Mod(N % d, 52 - es, d)
        rs == IF 2 * r < d THEN r ELSE r - d
        P0 == (i * N) \div d
        e0 == FloorLog2(P0, 1)
        a == -(i * rs)
        h == IF P0 = Pow2(e0) /\ a < 0 THEN 1 ELSE 0
        m == RoundHalfEven(a * Pow2(h), d * Pow2(e0 - es))
        P == P0 + start
        eP == FloorLog2(P, 1)
        h2 == IF P = Pow2(eP) /\ m < 0 THEN 1 ELSE 0
    IN  IF i = 0 \/ i = d \/ P0 = 0 THEN 0
        ELSE RoundHalfEven(m * Pow2(h2), Pow2(h + eP - e0))

\* what a numpy call that builds an array comes to: the array, or the exception
\* it raises
Array(value) == [kind |-> "ok", value |-> value]
Raises(error) == [kind |-> "raised", error |-> error]

\* np.linspace(start, stop, num), start < stop integers.  A negative num raises
\* ValueError ("Number of samples, -1, must be non-negative."), num = 0 gives the
\* empty array and num = 1 the array [start].  From two points on the last point
\* is stop itself; a point that is not an integer is kept as the exact rational
\* (the float64 is within 1e-12 of it, and no integer lies between the two)
linspace(start, stop, num) ==
    IF num < 0 THEN Raises("ValueError")
    ELSE IF num = 0 THEN Array(<<>>)
    ELSE IF num = 1 THEN Array(<<RInt(start)>>)
    ELSE Array(Tab(num, LAMBDA i :
            IF i = num THEN RInt(stop)
            ELSE LET exact == RAdd(RInt(start), Rat((i - 1) * (stop - start), num - 1))
                 IN  IF exact[2] = 1
                     THEN Nudged(exact, LinspaceUlps(start, stop, num, i - 1))
                     ELSE exact))

\* mask = (freqs >= band['low_freq']) & (freqs <= band['high_freq'])
InRange(band, f) == FLe(RInt(band.low_freq), f) /\ FLe(f, RInt(band.high_freq))

\* response[mask] = band['scale']
ResponseStep_SkipUnity(response, band, freqs) ==
    IF IsUnity(band.scale) THEN response
    ELSE Tab(Len(freqs), LAMBDA i : IF InRange(band, freqs[i]) THEN band.scale ELSE response[i])

ResponseStep(response, band, freqs) ==
    Tab(Len(freqs), LAMBDA i : IF InRange(band, freqs[i]) THEN band.scale ELSE response[i])

RECURSIVE ResponseLoop(_, _, _, _)
ResponseLoop(response, bands, b, freqs) ==
    IF b > Len(bands) THEN response
    ELSE ResponseLoop(ResponseStep(response, bands[b], freqs), bands, b + 1, freqs)

LowestFreq == 20
HighestFreq == 20000

\* np.linspace runs first: the ValueError of a negative n_points leaves the
\* function before any band is looked at.  A band without one of its keys raises
\* KeyError in the loop.  Nothing catches either.
get_frequency_response(bands, sr, points) ==
    LET grid == linspace(LowestFreq, HighestFreq, points)
    IN  IF grid.kind = "raised"
        THEN [op |-> "get_frequency_response", kind |-> "raised", error |-> grid.error]
        ELSE IF \E b \in 1..Len(bands) : ~WellFormed(bands[b])
        THEN [op |-> "get_frequency_response", kind |-> "raised", error |-> "KeyError"]
        ELSE LET freqs == grid.value
                 ones == Tab(Len(freqs), LAMBDA i : R1)
             IN  [op |-> "get_frequency_response", kind |-> "ok",
                  frequencies |-> freqs, magnitude |-> ResponseLoop(ones, bands, 1, freqs)]

\* ---------------------------------------------------------------- inputs
Samples == {Rat(-1, 1), R0, Rat(1, 2)}
Signals == UNION {[1..n -> Samples] : n \in 0..MaxLen}

\* a non-empty list of strings has a length and no sample values (an empty list
\* converts to an empty array)
TextLists == {[i \in 1..n |-> R0] : n \in 1..MaxLen}

SignalTypes == {"ndarray", "list", "text_list"}

BandChoices == {
    [low_freq |-> 1, high_freq |-> 3, scale |-> Rat(2, 1)],
    [low_freq |-> 0, high_freq |-> 5, scale |-> Rat(1, 2)],
    [low_freq |-> 1, high_freq |-> 5, scale |-> R1],
    [low_freq |-> 0, high_freq |-> 5] }

BandLists == UNION {[1..n -> BandChoices] : n \in 0..MaxBands}

SampleRates == {8, 16}
FreqSampleRates == {8, 8000, 44100}

DefaultPoints == 1024
\* 40 points: the grid points 6680 and 13340 come out one float64 below; -1
\* points: np.linspace raises
PointChoices == -1..MaxPoints \cup {40, DefaultPoints}

ResponseBandChoices == {
    [low_freq |-> 100, high_freq |-> 200, scale |-> Rat(1, 2)],
    [low_freq |-> 150, high_freq |-> 10010, scale |-> Rat(2, 1)],
    [low_freq |-> 20, high_freq |-> 20000, scale |-> R1],
    [low_freq |-> 6680, high_freq |-> 13340, scale |-> Rat(1, 2)],
    [low_freq |-> 0, high_freq |-> 20] }

ResponseBandLists == UNION {[1..n -> ResponseBandChoices] : n \in 0..MaxBands}

\* calls whose original_rms / processed_rms is exactly 10 or exactly 0.1: one band
\* of scale 1/8 or 10 over every bin, on signals the window compensation zeroes
\* at both ends
LevelBoundaryCalls == {
    [signal |-> <<Rat(9, 32), Rat(3, 8), Rat(9, 16), Rat(27, 64)>>,
     bands |-> <<[low_freq |-> 0, high_freq |-> 8, scale |-> Rat(1, 8)]>>],
    [signal |-> <<Rat(9, 4), RInt(3), Rat(9, 2), Rat(27, 8)>>,
     bands |-> <<[low_freq |-> 0, high_freq |-> 8, scale |-> Rat(1, 8)]>>],
    [signal |-> <<R0, Rat(1, 2), Rat(-1, 1), R0>>,
     bands |-> <<[low_freq |-> 0, high_freq |-> 8, scale |-> RInt(10)]>>] }

NoRet == [op |-> "none"]

\* a call that takes none of the keyword arguments
NoParams == [op |-> "none"]

\* FFTProcessor.__init__ and Equalizer.__init__: the state the module-level
\* instances are constructed in
Constructed ==
    [fft_processor |-> [nyquist_limit |-> 0],
     equalizer |-> [sample_rate |-> 44100, fft_processor |-> [nyquist_limit |-> 0]]]

\* no array is tracked by reference, no call is in progress
NoBufs == <<>>
NoStack == <<>>

\* ---------------------------------------------------------------- transform calls
InitFFT ==
    /\ pc = "start"
    /\ signal \in Signals
    /\ signal_len = Len(signal)
    /\ signal_type = "ndarray"
    /\ frequency_bands = <<>>
    /\ sample_rate = 8
    /\ n_points = 0
    /\ params = NoParams
    /\ instances = Constructed
    /\ bufs = NoBufs
    /\ stack = NoStack
    /\ rounding = "inside"
    /\ pow_rounding = "nearer"
    /\ ret = NoRet

CallFft ==
    /\ pc = "start"
    /\ pc' = "fft"
    /\ ret' = [op |-> "fft", spectrum |-> fft(ToComplex(signal))]
    /\ UNCHANGED <<args, heap, rounding, pow_rounding>>

CallIfft ==
    /\ pc = "fft"
    /\ pc' = "ifft"
    /\ ret' = [op |-> "ifft", spectrum |-> ret.spectrum, x |-> ifft(ret.spectrum)]
    /\ UNCHANGED <<args, heap, rounding, pow_rounding>>

NextFFT == CallFft \/ CallIfft

SpecFFT == InitFFT /\ [][NextFFT]_vars

\* the transform by its definition: X[k] = sum over j of x[j] * exp(-2 pi i j k / n)
RECURSIVE DftSum(_, _, _)
DftSum(x, k, j) ==
    IF j >= Len(x) THEN CZero
    ELSE CAdd(CMulW(x[j + 1], ((j * k) % Len(x)) * (RootOrder \div Len(x))), DftSum(x, k, j + 1))

Dft(x) == Tab(Len(x), LAMBDA i : DftSum(x, i - 1, 0))

IsPowerOfTwo(m) == \E e \in 0..12 : 2^e = m

\* C5: the inverse transform of the forward transform, cut to the first n samples,
\* is the input signal, for every length n (padded or not).
RoundTrip ==
    pc = "ifft" =>
        /\ Len(ret.x) >= Len(signal)
        /\ SubSeq(ret.x, 1, Len(signal)) = ToComplex(signal)

RoundTripWitness ==
    /\ pc = "ifft"
    /\ Len(signal) = 3
    /\ Len(ret.spectrum) = 4
    /\ signal[1] # signal[2]
    /\ signal[3] # R0
    /\ SubSeq(ret.x, 1, 3) = ToComplex(signal)

\* C6: fft returns an input of length <= 1 unchanged; a power-of-two length keeps its
\* length; any other length n gives the smallest power of two above n, and the
\* spectrum is the transform of the input right-padded with zeros; every spectrum
\* of length >= 2 has a power-of-two length.
FftLengths ==
    pc = "fft" =>
        LET n == Len(signal)
            X == ret.spectrum
        IN  /\ n <= 1 => X = ToComplex(signal)
            /\ (n >= 2 /\ IsPowerOfTwo(n)) => Len(X) = n
            /\ (n >= 2 /\ ~IsPowerOfTwo(n)) =>
                   /\ IsPowerOfTwo(Len(X))
                   /\ Len(X) > n
                   /\ Len(X) \div 2 < n
            /\ n >= 2 =>
                   /\ Len(X) >= n
                   /\ X = Dft(ToComplex(signal) \o [i \in 1..(Len(X) - n) |-> CZero])
            /\ Len(X) >= 2 => IsPowerOfTwo(Len(X))

FftLengthsWitness ==
    /\ pc = "fft"
    /\ Len(signal) = 3
    /\ Len(ret.spectrum) = 4
    /\ signal[3] # R0
    /\ ret.spectrum[2] # ret.spectrum[4]

\* ---------------------------------------------------------------- equalizer calls
Init ==
    /\ pc = "start"
    /\ \/ /\ signal_type = "ndarray" /\ signal \in Signals
          /\ frequency_bands \in BandLists
          /\ sample_rate \in SampleRates
       \/ /\ signal_type = "text_list" /\ signal \in TextLists
          /\ frequency_bands \in BandLists
          /\ sample_rate \in SampleRates
       \/ /\ signal_type = "ndarray"
          /\ \E call \in LevelBoundaryCalls :
                signal = call.signal /\ frequency_bands = call.bands
          /\ sample_rate = 8
    /\ signal_len = Len(signal)
    /\ n_points = 0
    /\ params = NoParams
    /\ instances = Constructed
    /\ bufs = NoBufs
    /\ stack = NoStack
    /\ rounding \in Roundings
    /\ pow_rounding = "nearer"
    /\ ret = NoRet

CallApplyEqualizer ==
    /\ pc = "start"
    /\ pc' = "equalized"
    /\ ret' = apply_equalizer(signal, signal_type, frequency_bands, sample_rate)
    /\ UNCHANGED <<args, heap, rounding, pow_rounding>>

Next == CallApplyEqualizer

Spec == Init /\ [][Next]_vars

\* the call on the values and the call on the lengths end the same way
ShapeAgrees ==
    pc = "equalized" =>
        LET sh == apply_equalizer_shape(Len(signal), signal_type, frequency_bands, "finite")
        IN  /\ ret.kind = sh.kind
            /\ ret.at = sh.at
            /\ Len(ret.samples) = sh.len

\* ---- properties of the equalizer calls
Sign(r) == IF r[1] > 0 THEN 1 ELSE IF r[1] < 0 THEN -1 ELSE 0

\* |a - b| <= 1e-9
WithinTolerance(a, b) ==
    LET d == RAbs(RSub(a, b))
    IN  d[1] = 0 \/ d[2] \div 1000000000 >= d[1]

\* returned sample i is x (to 1e-9): the exact value samples[i] * sqrt(level2) is x
\* and the float32 of x is within the tolerance of x.  A limited sample is
\* tanh(0.9 v) * 0.95, which is v only for v = 0.
ReturnedSampleIs(r, i, x) ==
    /\ Sign(r.samples[i]) = Sign(x)
    /\ RMul(RMul(r.samples[i], r.samples[i]), r.level2) = RMul(x, x)
    /\ r.limited => x = R0
    /\ WithinTolerance(Float32(x), x)

ReturnsSignal(r, x) ==
    /\ r.kind \in {"ok", "fallback"}
    /\ Len(r.samples) = Len(x)
    /\ \A i \in 1..Len(x) : ReturnedSampleIs(r, i, x[i])

AllWellFormed(bands) == \A b \in 1..Len(bands) : WellFormed(bands[b])

\* C2: with every band at scale exactly 1.0 (or no band) the returned signal
\* equals the input sample for sample.
UnityPassThrough ==
    (/\ pc = "equalized"
     /\ signal_type = "ndarray"
     /\ AllWellFormed(frequency_bands)
     /\ \A b \in 1..Len(frequency_bands) : IsUnity(frequency_bands[b].scale))
    => ReturnsSignal(ret, signal)

\* C3: no exception leaves apply_equalizer; a call that meets one returns the
\* original signal unmodified.
FailurePolicy ==
    pc = "equalized" =>
        /\ ret.kind # "raised"
        /\ ret.kind = "fallback" => ReturnsSignal(ret, signal)

\* |f| lies in [low_freq, high_freq]
ContainsAbs(band, f) == RLe(RInt(band.low_freq), RAbs(f)) /\ RLe(RAbs(f), RInt(band.high_freq))

\* C8 (on signals whose first and last sample are 0, which the window
\* compensation leaves alone): a single band of scale g holding every non-zero
\* bin changes the output energy by the factor g^2, unless the limiter acts.
GainChangesLevel ==
    (/\ pc = "equalized"
     /\ ret.kind = "ok"
     /\ ~ret.limited
     /\ Len(frequency_bands) = 1
     /\ ~IsUnity(frequency_bands[1].scale)
     /\ Len(signal) >= 3
     /\ signal[1] = R0
     /\ signal[Len(signal)] = R0
     /\ RLt(R0, SumSquares(signal))
     /\ \A i \in 1..Len(ret.locals.freqs) :
            ret.locals.freq_domain[i] # CZero
                => ContainsAbs(frequency_bands[1], ret.locals.freqs[i]))
    => RMul(SumSquares(ret.samples), ret.level2)
         = RMul(RMul(frequency_bands[1].scale, frequency_bands[1].scale), SumSquares(signal))

\* the scale of the last band of bands[1..b] whose range holds |f|, 1 when none does
RECURSIVE LastGain(_, _, _)
LastGain(bands, b, f) ==
    IF b = 0 THEN R1
    ELSE IF ContainsAbs(bands[b], f) THEN bands[b].scale
    ELSE LastGain(bands, b - 1, f)

\* the same over the bands whose scale is not 1.0
RECURSIVE LastAppliedGain(_, _, _)
LastAppliedGain(bands, b, f) ==
    IF b = 0 THEN R1
    ELSE IF ~IsUnity(bands[b].scale) /\ ContainsAbs(bands[b], f) THEN bands[b].scale
    ELSE LastAppliedGain(bands, b - 1, f)

\* C9 as stated: each bin is scaled by the scale of the last band, of any scale,
\* whose range holds the absolute value of the bin's frequency.
LastBandWins ==
    (pc = "equalized" /\ ret.locals.ran) =>
        \A i \in 1..Len(ret.locals.freqs) :
            ret.locals.output_freq[i] =
                CScale(ret.locals.freq_domain[i],
                       LastGain(frequency_bands, Len(frequency_bands), ret.locals.freqs[i]))

\* C9 as amended: each bin is scaled by the scale of the last band of scale other
\* than 1.0 whose range holds the absolute value of the bin's frequency, and by 1.0
\* when there is none; a band of scale 1.0 is skipped and overrides nothing.
LastAppliedBandWins ==
    (pc = "equalized" /\ ret.locals.ran) =>
        \A i \in 1..Len(ret.locals.freqs) :
            ret.locals.output_freq[i] =
                CScale(ret.locals.freq_domain[i],
                       LastAppliedGain(frequency_bands, Len(frequency_bands), ret.locals.freqs[i]))

LastAppliedBandWinsWitness ==
    /\ pc = "equalized"
    /\ ret.locals.ran
    /\ Len(frequency_bands) = 2
    /\ ~IsUnity(frequency_bands[1].scale)
    /\ ~IsUnity(frequency_bands[2].scale)
    /\ frequency_bands[1].scale # frequency_bands[2].scale
    /\ \E i \in 1..Len(ret.locals.freqs) :
          /\ ContainsAbs(frequency_bands[1], ret.locals.freqs[i])
          /\ ContainsAbs(frequency_bands[2], ret.locals.freqs[i])
          /\ ret.locals.freq_domain[i] # CZero
          /\ ret.locals.output_freq[i] = CScale(ret.locals.freq_domain[i], frequency_bands[2].scale)

\* ---------------------------------------------------------------- equalizer calls, lengths only
\* what the length-level call keeps of the samples
\* what the samples of the signal are: all finite and of ordinary size; all finite
\* but so large that the sums of the transform overflow float64; or some NaN
Contents == {"finite", "overflows", "has_nan"}

InitShape ==
    /\ pc = "start"
    /\ signal \in Contents
    /\ signal_len \in 0..MaxShapeLen
    /\ signal_type \in SignalTypes
    /\ signal_type = "text_list" => signal_len >= 1 /\ signal = "finite"
    /\ signal_len = 0 => signal = "finite"
    /\ signal = "overflows" => signal_len >= 2
    /\ frequency_bands \in {bl \in BandLists : Len(bl) <= 1}
    /\ sample_rate = 8
    /\ n_points = 0
    /\ params = NoParams
    /\ instances = Constructed
    /\ bufs = NoBufs
    /\ stack = NoStack
    /\ rounding = "inside"
    /\ pow_rounding = "nearer"
    /\ ret = NoRet

CallApplyEqualizerShape ==
    /\ pc = "start"
    /\ pc' = "equalized"
    /\ ret' = apply_equalizer_shape(signal_len, signal_type, frequency_bands, signal)
    /\ UNCHANGED <<args, heap, rounding, pow_rounding>>

NextShape == CallApplyEqualizerShape

SpecShape == InitShape /\ [][NextShape]_vars

\* C1: a call on a buffer of L samples returns exactly L samples, from the end of
\* the try block or from the except block.
LengthPreserved ==
    (pc = "equalized" /\ signal_type # "text_list") =>
        /\ ret.kind \in {"ok", "fallback"}
        /\ ret.len = signal_len

LengthPreservedWitness ==
    /\ pc = "equalized"
    /\ signal_len = 2049
    /\ Len(frequency_bands) = 1
    /\ WellFormed(frequency_bands[1])
    /\ ~IsUnity(frequency_bands[1].scale)
    /\ ret.kind = "ok"
    /\ ret.len = 2049

\* C4: on a buffer of numbers, of any length, and well-formed bands the call runs
\* to the end of the try block.
ShapeNeverRaises ==
    (/\ pc = "equalized"
     /\ signal_type # "text_list"
     /\ \A b \in 1..Len(frequency_bands) : WellFormed(frequency_bands[b]))
    => ret.kind = "ok"

\* C16: every sample apply_equalizer returns is finite, for every input length and
\* for non-finite input samples too.
AlwaysFinite ==
    (pc = "equalized" /\ ret.kind \in {"ok", "fallback"}) => ret.content = "finite"

\* C19: for finite input samples and a call that does not take the exception
\* fallback, every returned sample has absolute value at most 0.95 (so none is NaN).
PeakBounded ==
    (/\ pc = "equalized"
     /\ signal \in {"finite", "overflows"}
     /\ ret.kind = "ok")
    => ret.content = "finite"

\* With exact arithmetic (the value-level specification) the bound holds: a
\* returned buffer is either limited, each sample tanh(0.9 x) * 0.95, or none of
\* its samples exceeds 0.95 in absolute value.
LimitedOrWithin ==
    (pc = "equalized" /\ ret.kind = "ok") =>
        \/ ret.limited
        \/ \A i \in 1..Len(ret.samples) :
               RLe(RMul(RMul(ret.samples[i], ret.samples[i]), ret.level2), Rat(361, 400))

\* ---------------------------------------------------------------- bin frequency consumers
InitFreq ==
    /\ pc = "start"
    /\ signal = "untracked"
    /\ signal_len \in 0..MaxFreqLen
    /\ signal_type = "ndarray"
    /\ frequency_bands = <<>>
    /\ sample_rate \in FreqSampleRates
    /\ n_points = 0
    /\ params = NoParams
    /\ instances = Constructed
    /\ bufs = NoBufs
    /\ stack = NoStack
    /\ rounding = "inside"
    /\ pow_rounding = "nearer"
    /\ ret = [op |-> "frequencies", assigned |-> {}, error |-> "none"]

EqualizerFrequencies ==
    /\ pc = "start"
    /\ pc' = "equalizer"
    /\ ret' = [ret EXCEPT !.assigned = @ \cup EqualizerAssigns(signal_len, sample_rate)]
    /\ UNCHANGED <<args, heap, rounding, pow_rounding>>

SpectrumFrequencies ==
    /\ pc = "equalizer"
    /\ pc' = "spectrum"
    /\ ret' = [ret EXCEPT !.assigned = @ \cup SpectrumAssigns(signal_len, sample_rate)]
    /\ UNCHANGED <<args, heap, rounding, pow_rounding>>

GetFrequencyBins ==
    /\ pc = "spectrum"
    /\ LET bins == FrequencyBinsAssigns(signal_len, sample_rate)
       IN  /\ pc' = IF bins.kind = "raised" THEN "raised" ELSE "bins"
           /\ ret' = [ret EXCEPT !.assigned = @ \cup bins.assigned, !.error = bins.error]
    /\ UNCHANGED <<args, heap, rounding, pow_rounding>>

NextFreq == EqualizerFrequencies \/ SpectrumFrequencies \/ GetFrequencyBins

SpecFreq == InitFreq /\ [][NextFreq]_vars

\* the mapping of bin k of a transform of length n at sample rate sr
MappedFrequency(k, n, sr) ==
    IF 2 * k <= n THEN Rat(k * sr, n) ELSE RSub(Rat(k * sr, n), RInt(sr))

\* C7: every consumer gives bin k the frequency k sr / n for k <= n/2 and
\* k sr / n - sr above, and no two consumers differ on a bin.
FrequencyMapping ==
    /\ \A a \in ret.assigned : a.f = MappedFrequency(a.k, a.n, sample_rate)
    /\ \A a, b \in ret.assigned : (a.n = b.n /\ a.k = b.k) => a.f = b.f

FrequencyMappingWitness ==
    /\ pc = "bins"
    /\ sample_rate = 8000
    /\ signal_len = 8
    /\ [consumer |-> "apply_equalizer", n |-> 8, k |-> 1, f |-> RInt(1000)] \in ret.assigned
    /\ [consumer |-> "apply_equalizer", n |-> 8, k |-> 7, f |-> RInt(-1000)] \in ret.assigned
    /\ [consumer |-> "apply_equalizer", n |-> 8, k |-> 4, f |-> RInt(4000)] \in ret.assigned
    /\ [consumer |-> "compute_fft_spectrum", n |-> 8, k |-> 1, f |-> RInt(1000)] \in ret.assigned
    /\ [consumer |-> "get_frequency_bins", n |-> 8, k |-> 1, f |-> RInt(1000)] \in ret.assigned

\* ---------------------------------------------------------------- frequency response calls
InitResponse ==
    /\ pc = "start"
    /\ signal = <<>>
    /\ signal_len = 0
    /\ signal_type = "ndarray"
    /\ frequency_bands \in ResponseBandLists
    /\ sample_rate = 44100
    /\ n_points \in PointChoices
    /\ params = NoParams
    /\ instances = Constructed
    /\ bufs = NoBufs
    /\ stack = NoStack
    /\ rounding = "inside"
    /\ pow_rounding = "nearer"
    /\ ret = NoRet

CallGetFrequencyResponse ==
    /\ pc = "start"
    /\ pc' = "response"
    /\ ret' = get_frequency_response(frequency_bands, sample_rate, n_points)
    /\ UNCHANGED <<args, heap, rounding, pow_rounding>>

NextResponse == CallGetFrequencyResponse

SpecResponse == InitResponse /\ [][NextResponse]_vars

\* the scale of the last band of bands[1..b] whose range holds f, 1 when none does
RECURSIVE LastResponseGain(_, _, _)
LastResponseGain(bands, b, f) ==
    IF b = 0 THEN R1
    ELSE IF FLe(RInt(bands[b].low_freq), f) /\ FLe(f, RInt(bands[b].high_freq)) THEN bands[b].scale
    ELSE LastResponseGain(bands, b - 1, f)

\* C10 as stated: for every count n_points (>= 0) the response has n_points
\* frequencies ascending from 20 to 20000 and as many gains; each gain is the scale
\* of the last band holding the frequency, 1.0 when no band holds it.
ResponseSpansRange ==
    (pc = "response" /\ AllWellFormed(frequency_bands) /\ n_points >= 0) =>
        /\ ret.kind = "ok"
        /\ Len(ret.frequencies) = n_points
        /\ Len(ret.magnitude) = n_points
        /\ n_points >= 1 => /\ ret.frequencies[1] = RInt(20)
                            /\ ret.frequencies[n_points] = RInt(20000)
        /\ \A i \in 1..(n_points - 1) : RLt(ret.frequencies[i], ret.frequencies[i + 1])
        /\ \A i \in 1..n_points :
              ret.magnitude[i] =
                  LastResponseGain(frequency_bands, Len(frequency_bands), ret.frequencies[i])

\* C10: for n_points >= 0 and well-formed bands the response has n_points strictly
\* ascending frequencies and as many gains; the first frequency is 20 when
\* n_points >= 1 and the last is 20000 when n_points >= 2 (a single point is 20);
\* each gain is the scale of the last band holding the returned frequency, 1.0
\* when no band holds it.  A negative n_points raises ValueError.
ResponseCurve ==
    pc = "response" =>
        /\ n_points < 0 => ret.kind = "raised" /\ ret.error = "ValueError"
        /\ (n_points >= 0 /\ AllWellFormed(frequency_bands)) => ret.kind = "ok"
        /\ ret.kind = "ok" =>
              /\ Len(ret.frequencies) = n_points
              /\ Len(ret.magnitude) = n_points
              /\ \A i \in 1..(n_points - 1) : RLt(ret.frequencies[i], ret.frequencies[i + 1])
              /\ n_points >= 1 => ret.frequencies[1] = RInt(20)
              /\ n_points >= 2 => ret.frequencies[n_points] = RInt(20000)
              /\ \A i \in 1..n_points :
                    ret.magnitude[i] =
                        LastResponseGain(frequency_bands, Len(frequency_bands), ret.frequencies[i])

ResponseCurveWitness ==
    /\ pc = "response"
    /\ ret.kind = "ok"
    /\ n_points = 1024
    /\ frequency_bands = <<[low_freq |-> 100, high_freq |-> 200, scale |-> Rat(1, 2)]>>
    /\ \E i \in 1..n_points :
          /\ RLe(RInt(100), ret.frequencies[i])
          /\ RLe(ret.frequencies[i], RInt(200))
          /\ ret.magnitude[i] = Rat(1, 2)
    /\ \A i \in 1..n_points :
          (RLt(ret.frequencies[i], RInt(100)) \/ RLt(RInt(200), ret.frequencies[i]))
              => ret.magnitude[i] = R1

\* ---------------------------------------------------------------- default bands
\* The two outer edges are np.power(10, np.log10(m)) in float64, and that round
\* trip is the identity only where log10(m) is a float64.  With d the float64
\* nearest log10(m), the exact 10^d lies between m and a float64 next to it:
\*     m = 20      d = 1.3010299956639813   10^d = m + 0.756 units in the last place
\*     m = 50      d = 1.6989700043360187   10^d = m - 0.945
\*     m = 200     d = 2.3010299956639813   10^d = m + 0.945
\*     m = 20000   d = 4.301029995663981    10^d = m + 0.738
\* (m = 1, 10, 100, 10000: d is the integer log10(m) and 10^d is m).  IEEE-754 does
\* not fix the last bit of a power, and the routine behind np.power differs with
\* the build: it returns the nearer of the two enclosing float64 (a correctly
\* rounded power, 20.000000000000004 for m = 20) or the farther one (m itself; a
\* power good to one unit in the last place).  A log10 that is itself a unit off
\* moves 10^d at least two units away from m, never onto it.
PowRoundings == {"nearer", "farther"}

\* float64(10 ** float64(log10(m))) - m in units in the last place of m, for the
\* frequencies of MinFreqs and MaxFreqs
PowLog10Ulps(m) ==
    CASE m \in {1, 10, 100, 10000} -> 0
      [] m \in {20, 200, 20000} -> IF pow_rounding = "nearer" THEN 1 ELSE 0
      [] m = 50 -> IF pow_rounding = "nearer" THEN -1 ELSE 0

\* log_freqs[i] = 10 ** y, y the point of np.linspace(min_log, max_log, num) at the
\* fraction t of the way: the first point is min_log and the last is max_log
\* themselves, so the two outer edges are 10 ** log10(min_freq) and
\* 10 ** log10(max_freq); an edge in between is min_freq^(1-t) * max_freq^t, of
\* which the model keeps the position t
LogEdge(min_freq, max_freq, t) ==
    [lo |-> min_freq, hi |-> max_freq, t |-> t,
     ulps |-> IF t = R0 THEN PowLog10Ulps(min_freq)
              ELSE IF t = R1 THEN PowLog10Ulps(max_freq)
              ELSE 0]

\* np.logspace(min_log, max_log, num) is np.power(10, np.linspace(min_log, max_log,
\* num)): a negative num raises the ValueError of np.linspace, num = 0 gives the
\* empty array, num = 1 the array [10 ** min_log]
logspace(min_freq, max_freq, num) ==
    IF num < 0 THEN Raises("ValueError")
    ELSE IF num = 0 THEN Array(<<>>)
    ELSE IF num = 1 THEN Array(<<LogEdge(min_freq, max_freq, R0)>>)
    ELSE Array(Tab(num, LAMBDA i : LogEdge(min_freq, max_freq, Rat(i - 1, num - 1))))

\* bands.append({...}) of iteration i (i + 1 in the model, which counts from 1):
\* the keys id, low_freq, high_freq and scale of the band; label and center_freq
\* are derived from the same two edges
DefaultBand(log_freqs, i) ==
    [id |-> i, low_freq |-> log_freqs[i], high_freq |-> log_freqs[i + 1], scale |-> R1]

\* np.logspace is called with num_bands + 1: num_bands <= -2 raises ValueError,
\* which nothing catches; num_bands = -1 makes no edge and num_bands = 0 one edge,
\* and range(num_bands) then makes no band
create_default_bands(num_bands, min_freq, max_freq) ==
    LET log_freqs == logspace(min_freq, max_freq, num_bands + 1)
    IN  IF log_freqs.kind = "raised"
        THEN [op |-> "create_default_bands", kind |-> "raised", error |-> log_freqs.error]
        ELSE [op |-> "create_default_bands", kind |-> "ok",
              bands |-> Tab(num_bands, LAMBDA i : DefaultBand(log_freqs.value, i))]

MinFreqs == {1, 10, 20, 50}
MaxFreqs == {100, 200, 10000, 20000}

InitBands ==
    /\ pc = "start"
    /\ signal = <<>>
    /\ signal_len = 0
    /\ signal_type = "ndarray"
    /\ frequency_bands = <<>>
    /\ sample_rate = 44100
    /\ n_points = 0
    /\ params \in [num_bands : -2..MaxNumBands, min_freq : MinFreqs, max_freq : MaxFreqs]
    /\ instances = Constructed
    /\ bufs = NoBufs
    /\ stack = NoStack
    /\ rounding = "inside"
    /\ pow_rounding \in PowRoundings
    /\ ret = NoRet

CallCreateDefaultBands ==
    /\ pc = "start"
    /\ pc' = "bands"
    /\ ret' = create_default_bands(params.num_bands, params.min_freq, params.max_freq)
    /\ UNCHANGED <<args, heap, rounding, pow_rounding>>

NextBands == CallCreateDefaultBands

SpecBands == InitBands /\ [][NextBands]_vars

\* edge a lies below edge b (edges of one layout with min_freq < max_freq: the gap
\* between two positions is many units in the last place)
EdgeBelow(a, b) == a.lo < a.hi /\ RLt(a.t, b.t)

\* the edge is the frequency m itself
EdgeIs(e, m) ==
    \/ e.t = R0 /\ e.lo = m /\ e.ulps = 0
    \/ e.t = R1 /\ e.hi = m /\ e.ulps = 0

\* the layout without its two outer values: for a count num_bands >= 0, num_bands
\* bands, ids 1..num_bands in order, scale 1.0, low_freq < high_freq, each
\* high_freq the next low_freq; np.logspace raises for num_bands <= -2
BandsContiguous ==
    pc = "bands" =>
        LET n == params.num_bands
        IN  /\ n <= -2 => ret.kind = "raised" /\ ret.error = "ValueError"
            /\ n >= -1 => ret.kind = "ok"
            /\ n >= 0 =>
                  /\ Len(ret.bands) = n
                  /\ \A i \in 1..n :
                        /\ ret.bands[i].id = i
                        /\ ret.bands[i].scale = R1
                        /\ EdgeBelow(ret.bands[i].low_freq, ret.bands[i].high_freq)
                  /\ \A i \in 1..(n - 1) : ret.bands[i].high_freq = ret.bands[i + 1].low_freq

\* C11: create_default_bands returns num_bands bands, ids 1..num_bands in order, scale
\* 1.0, low_freq < high_freq, contiguous, edges strictly increasing, the first
\* low_freq equal to min_freq and the last high_freq equal to max_freq (stated for
\* a count num_bands >= 0).
DefaultBandLayout ==
    (pc = "bands" /\ params.num_bands >= 0) =>
        LET n == params.num_bands
        IN  /\ ret.kind = "ok"
            /\ Len(ret.bands) = n
            /\ \A i \in 1..n :
                  /\ ret.bands[i].id = i
                  /\ ret.bands[i].scale = R1
                  /\ EdgeBelow(ret.bands[i].low_freq, ret.bands[i].high_freq)
            /\ \A i \in 1..(n - 1) : ret.bands[i].high_freq = ret.bands[i + 1].low_freq
            /\ n >= 1 => /\ EdgeIs(ret.bands[1].low_freq, params.min_freq)
                         /\ EdgeIs(ret.bands[n].high_freq, params.max_freq)

\* ---------------------------------------------------------------- spectrogram
\* np.array(spectrogram).T.tolist(): entry [k][i] of the result is entry [i][k] of
\* the list of rows; a list of rows of no columns gives []
Transpose(m, rows, cols) == Tab(cols, LAMBDA k : Tab(rows, LAMBDA i : m[i][k]))

\* num_windows = 1 + (n - window_size) // hop_size, at least 1 (hop_size # 0)
NumWindows(len, window_size, hop_size) ==
    LET counted == 1 + ((len - window_size) \div hop_size)
    IN  IF counted <= 0 THEN 1 ELSE counted

\* compute_spectrogram on the lengths.  A value of the spectrogram is
\* 20 log10(|fft(window * hamming)[k]| + 1e-12) of window i; the model keeps which
\* window i (0-based, in the order of the loop) and which bin k it is.  windows are
\* the sample ranges [start, end) the loop transformed, rows the list `spectrogram`
\* the loop built, value what the call returns.
compute_spectrogram(len, window_size, hop_size) ==
    LET Result(kind, value, windows, rows) ==
            [op |-> "compute_spectrogram", kind |-> kind, value |-> value,
             windows |-> windows, rows |-> rows]
        num_windows == NumWindows(len, window_size, hop_size)
        windows == Tab(num_windows, LAMBDA i :
                       [start |-> (i - 1) * hop_size, end |-> (i - 1) * hop_size + window_size])
        bins == window_size \div 2
        rows == Tab(num_windows, LAMBDA i : Tab(bins, LAMBDA k : [window |-> i - 1, bin |-> k - 1]))
    IN  IF len = 0 THEN Result("ok", <<>>, <<>>, <<>>)
        ELSE IF hop_size = 0
        THEN \* (n - window_size) // hop_size raises ZeroDivisionError
             Result("fallback", <<>>, <<>>, <<>>)
        ELSE IF num_windows * bins = 0
        THEN \* np.min of an array of no elements raises ValueError
             Result("fallback", <<>>, windows, rows)
        ELSE Result("ok", Transpose(rows, num_windows, bins), windows, rows)

GramLens == 0..MaxGramLen \cup {1000, 4096, 4097}

\* window_size, hop_size: small ones, the defaults of the signature, and 1024 / 512
GramParams ==
    [window_size : 1..MaxWindow, hop_size : 0..MaxHop]
        \cup {[window_size |-> 512, hop_size |-> 256], [window_size |-> 1024, hop_size |-> 512]}

InitGram ==
    /\ pc = "start"
    /\ signal = "untracked"
    /\ signal_len \in GramLens
    /\ signal_type = "ndarray"
    /\ frequency_bands = <<>>
    /\ sample_rate = 44100
    /\ n_points = 0
    /\ params \in GramParams
    /\ instances = Constructed
    /\ bufs = NoBufs
    /\ stack = NoStack
    /\ rounding = "inside"
    /\ pow_rounding = "nearer"
    /\ ret = NoRet

CallComputeSpectrogram ==
    /\ pc = "start"
    /\ pc' = "spectrogram"
    /\ ret' = compute_spectrogram(signal_len, params.window_size, params.hop_size)
    /\ UNCHANGED <<args, heap, rounding, pow_rounding>>

NextGram == CallComputeSpectrogram

SpecGram == InitGram /\ [][NextGram]_vars

\* ceil(a / b) for a >= 0, b > 0
CeilDiv(a, b) == (a + b - 1) \div b

\* C12: on a signal of len >= n_fft samples and hop > 0 the call transforms
\* ceil((len - n_fft) / hop) + 1 frames, and every input sample lies in a frame.
FrameCount ==
    (/\ pc = "spectrogram"
     /\ signal_len >= params.window_size
     /\ params.hop_size > 0)
    => /\ Len(ret.windows) = CeilDiv(signal_len - params.window_size, params.hop_size) + 1
       /\ \A j \in 0..(signal_len - 1) :
              \E i \in 1..Len(ret.windows) : ret.windows[i].start <= j /\ j < ret.windows[i].end

\* C13: the returned structure has one entry per time frame, in chronological
\* order, and each entry is that frame's n_fft / 2 values over the bins.
FrameMajor ==
    (pc = "spectrogram" /\ ret.kind = "ok" /\ signal_len > 0)
    => /\ Len(ret.value) = Len(ret.windows)
       /\ \A i \in 1..Len(ret.value) :
              /\ Len(ret.value[i]) = params.window_size \div 2
              /\ \A k \in 1..Len(ret.value[i]) : ret.value[i][k] = [window |-> i - 1, bin |-> k - 1]

\* ---------------------------------------------------------------- spectrum and spectrogram values
\* signal[::step]
TakeEvery(x, step) == Tab((Len(x) + step - 1) \div step, LAMBDA i : x[(i - 1) * step + 1])

\* lines 93-111 on the transform fft_result: the bins below n // 2 whose fftfreq
\* frequency is > 0; magnitude[i] is |abs_of| / over
SpectrumOf(fft_result, sr) ==
    LET n == Len(fft_result)
        bins == Tab(n \div 2, LAMBDA k : k - 1)
        valid == SelectSeq(bins, LAMBDA k : RLt(R0, fftfreq(n, sr, k)))
    IN  [op |-> "compute_fft_spectrum",
         magnitude |-> Tab(Len(valid), LAMBDA i : [abs_of |-> fft_result[valid[i] + 1], over |-> n]),
         frequencies |-> Tab(Len(valid), LAMBDA i : fftfreq(n, sr, valid[i]))]

EmptySpectrum == [op |-> "compute_fft_spectrum", magnitude |-> <<>>, frequencies |-> <<>>]

compute_fft_spectrum(sig, sr) ==
    LET decimated == IF Len(sig) > TargetLength THEN TakeEvery(sig, DecimationStep(Len(sig))) ELSE sig
    IN  IF Len(decimated) = 0 THEN EmptySpectrum
        ELSE SpectrumOf(fft(ToComplex(decimated)), sr)

\* np.hamming(M): 0.54 - 0.46 cos(2 pi k / (M - 1)), [1] for M = 1
hamming(M) ==
    IF M < 1 THEN <<>>
    ELSE IF M = 1 THEN <<R1>>
    ELSE Tab(M, LAMBDA i : Rat(108 - 46 * TwoCos(i - 1, M - 1), 200))

\* np.pad(signal, (0, window_size - n)) for n < window_size
PadShort(sig, window_size) ==
    IF Len(sig) < window_size THEN sig \o Tab(window_size - Len(sig), LAMBDA i : R0) ELSE sig

\* signal[start:end] * np.hamming(window_size), for end <= len(signal)
TaperedWindow(sig, start, window_size) ==
    LET taper == hamming(window_size)
    IN  Tab(window_size, LAMBDA i : RMul(sig[start + i], taper[i]))

\* fft_result[:window_size // 2]; a value of the row is 20 log10(|db_of| + 1e-12)
SpectrogramRow(fft_result, window_size) ==
    LET bins == IF window_size \div 2 < Len(fft_result) THEN window_size \div 2 ELSE Len(fft_result)
    IN  Tab(bins, LAMBDA k : [db_of |-> fft_result[k]])

\* compute_spectrogram on the values: every [window, bin] of the call on the
\* lengths is the value of that bin of the transform of that window
spectrogram_values(sig, window_size, hop_size) ==
    LET shape == compute_spectrogram(Len(sig), window_size, hop_size)
        padded == PadShort(sig, window_size)
        Row(i) == SpectrogramRow(
                      fft(ToComplex(TaperedWindow(padded, i * hop_size, window_size))), window_size)
        Fill(m) == Tab(Len(m), LAMBDA a : Tab(Len(m[a]), LAMBDA b :
                       Row(m[a][b].window)[m[a][b].bin + 1]))
    IN  [shape EXCEPT !.value = Fill(@), !.rows = Fill(@)]

\* ---------------------------------------------------------------- concurrent calls
\* Two requests call the module-level instances at once.  Every array or list is
\* an object on the heap (bufs), held by reference; the two callers are handed the
\* same signal, spectrum and band list.  A caller's stack holds the frame of the
\* operation it called and of the transforms that operation calls; a step is one
\* statement (or one loop iteration) of the innermost frame.
Callers == {"a", "b"}

Ops == {"fft", "ifft", "compute_fft_spectrum", "compute_spectrogram", "apply_equalizer",
        "get_frequency_response", "create_default_bands"}

SignalRef == <<"shared", 1>>
SpectrumRef == <<"shared", 2>>
BandsRef == <<"shared", 3>>
NoRef == <<"none", 0>>

\* the reference of an array caller c allocates
New(B, c) == <<c, Cardinality({r \in DOMAIN B : r[1] = c}) + 1>>

Put(B, r, v) == (r :> v) @@ B

Float64(data) == [dtype |-> "float64", data |-> data]
Complex128(data) == [dtype |-> "complex128", data |-> data]
Object(data) == [dtype |-> "object", data |-> data]

\* the elements of an array as complex values
AsComplex(buf) == IF buf.dtype = "complex128" THEN buf.data ELSE ToComplex(buf.data)

\* an elementwise result (np.conjugate(X), output_freq[mask] = ...) has the dtype
\* of the array it is computed from or written to: a float64 array stays float64
Like(buf, data) ==
    IF buf.dtype = "float64" THEN Float64(RealParts(data)) ELSE Complex128(data)

\* np.pad(x, (0, k), 'constant') keeps the dtype
Pad(buf, k) ==
    IF buf.dtype = "complex128" THEN Complex128(PadRight(buf.data, k))
    ELSE Float64(buf.data \o Tab(k, LAMBDA i : R0))

\* x.astype(complex) returns a new array: where its elements are written
AstypeTarget_InPlace(B, c, x) == x

AstypeTarget(B, c, x) == New(B, c)

\* a frame: the function, its position, its array argument x, its loop variables,
\* the reference its last callee returned, and the arrays it allocated
Frame(fn, x) ==
    [fn |-> fn, pc |-> "enter", x |-> x, i |-> 0, j |-> 0, length |-> 0,
     got |-> NoRef, fd |-> NoRef, out |-> NoRef]

\* what a step does: move on in the frame, call a function, or return a reference
Goto(B, fr) == [kind |-> "goto", bufs |-> B, frame |-> fr]
Call(B, fr, callee) == [kind |-> "call", bufs |-> B, frame |-> fr, callee |-> callee]
Return(B, r) == [kind |-> "return", bufs |-> B, ref |-> r]

\* FFTProcessor.fft and fft_iterative
FftEffect(c, fr, B) ==
    LET buf == B[fr.x]
        n == Len(buf.data)
    IN  CASE fr.pc = "enter" ->
               IF n <= 1 THEN Return(B, fr.x)
               ELSE IF ~SingleBit(n)
               THEN LET r == New(B, c)
                    IN  Goto(Put(B, r, Pad(buf, PaddedLen(n) - n)),
                             [fr EXCEPT !.x = r, !.pc = "astype"])
               ELSE Goto(B, [fr EXCEPT !.pc = "astype"])
          [] fr.pc = "astype" ->
               LET r == AstypeTarget(B, c, fr.x)
               IN  Goto(Put(B, r, Complex128(AsComplex(buf))),
                        [fr EXCEPT !.x = r, !.i = 1, !.j = 0, !.pc = "bitrev"])
          [] fr.pc = "bitrev" ->
               IF fr.i >= n THEN Goto(B, [fr EXCEPT !.length = 2, !.pc = "stage"])
               ELSE LET st == BitReverseStep(buf.data, fr.i, fr.j)
                    IN  Goto(Put(B, fr.x, Complex128(st.x)),
                             [fr EXCEPT !.i = fr.i + 1, !.j = st.j])
          [] fr.pc = "stage" ->
               IF fr.length > n THEN Return(B, fr.x)
               ELSE Goto(Put(B, fr.x, Complex128(ButterflyStage(buf.data, fr.length))),
                         [fr EXCEPT !.length = 2 * fr.length])

\* FFTProcessor.ifft
IfftEffect(c, fr, B) ==
    CASE fr.pc = "enter" ->
           LET r == New(B, c)
           IN  Call(Put(B, r, Like(B[fr.x], Conjugated(AsComplex(B[fr.x])))),
                    [fr EXCEPT !.pc = "scale"], Frame("fft", r))
      [] fr.pc = "scale" ->
           LET r == New(B, c)
               scaled == ScaledReal(AsComplex(B[fr.got]), Len(B[fr.x].data))
           IN  Return(Put(B, r, Float64(RealParts(scaled))), r)

\* Equalizer.apply_equalizer on an array of numbers
EqualizerEffect(c, fr, B) ==
    CASE fr.pc = "enter" ->
           \* signal = np.array(signal, dtype=np.float64): a copy
           LET r == New(B, c)
           IN  Goto(Put(B, r, Float64(B[fr.x].data)), [fr EXCEPT !.x = r, !.pc = "window"])
      [] fr.pc = "window" ->
           LET r == New(B, c)
           IN  Call(Put(B, r, Float64(WindowedSignal(B[fr.x].data))),
                    [fr EXCEPT !.pc = "copy"], Frame("fft", r))
      [] fr.pc = "copy" ->
           \* output_freq = freq_domain.copy()
           LET r == New(B, c)
           IN  Goto(Put(B, r, B[fr.got]),
                    [fr EXCEPT !.fd = fr.got, !.out = r, !.i = 1, !.j = 0, !.pc = "band"])
      [] fr.pc = "band" ->
           LET bands == B[BandsRef].data
               freq_domain == AsComplex(B[fr.fd])
               freqs == EqualizerFreqs(Len(freq_domain), sample_rate)
               r == New(B, c)
           IN  IF fr.i > Len(bands)
               THEN IF fr.j > 0
                    THEN Call(B, [fr EXCEPT !.pc = "finish"], Frame("ifft", fr.out))
                    ELSE \* processed_signal = signal.copy()
                         Goto(Put(B, r, B[fr.x]), [fr EXCEPT !.got = r, !.pc = "finish"])
               ELSE LET st == BandStep([err |-> FALSE, bands_applied |-> fr.j,
                                        output_freq |-> AsComplex(B[fr.out])],
                                       bands[fr.i], freq_domain, freqs)
                    IN  IF st.err
                        THEN Return(Put(B, r, Object(Fallback(B[fr.x].data, "bands", NoLocals))), r)
                        ELSE Goto(Put(B, fr.out, Like(B[fr.out], st.output_freq)),
                                  [fr EXCEPT !.i = fr.i + 1, !.j = st.bands_applied])
      [] fr.pc = "finish" ->
           LET freq_domain == AsComplex(B[fr.fd])
               loc == Locals(EqualizerFreqs(Len(freq_domain), sample_rate), freq_domain,
                             [output_freq |-> AsComplex(B[fr.out]), bands_applied |-> fr.j])
               raw == B[fr.got].data
               r == New(B, c)
           IN  Return(Put(B, r, Object(Finish(B[fr.x].data, raw, Len(raw), loc))), r)

\* FFTProcessor.compute_fft_spectrum (signal[::step] is a view nothing writes through)
SpectrumEffect(c, fr, B) ==
    CASE fr.pc = "enter" ->
           LET sig == B[fr.x].data
               r == New(B, c)
           IN  IF Len(sig) > TargetLength
               THEN Goto(Put(B, r, Float64(TakeEvery(sig, DecimationStep(Len(sig))))),
                         [fr EXCEPT !.x = r, !.pc = "decimated"])
               ELSE IF Len(sig) = 0 THEN Return(Put(B, r, Object(EmptySpectrum)), r)
               ELSE Call(B, [fr EXCEPT !.pc = "magnitude"], Frame("fft", fr.x))
      [] fr.pc = "decimated" ->
           \* the `if` of lines 82-85 has run, once: the empty test and the transform
           LET r == New(B, c)
           IN  IF Len(B[fr.x].data) = 0 THEN Return(Put(B, r, Object(EmptySpectrum)), r)
               ELSE Call(B, [fr EXCEPT !.pc = "magnitude"], Frame("fft", fr.x))
      [] fr.pc = "magnitude" ->
           LET r == New(B, c)
           IN  Return(Put(B, r, Object(SpectrumOf(AsComplex(B[fr.got]), sample_rate))), r)

\* FFTProcessor.compute_spectrogram; the result keeps kind and value
SpectrogramEffect(c, fr, B) ==
    LET window_size == params.window_size
        hop_size == params.hop_size
        sig == B[fr.x].data
        r == New(B, c)
    IN  CASE fr.pc = "enter" ->
               IF Len(sig) = 0 THEN Return(Put(B, r, Object([kind |-> "ok", value |-> <<>>])), r)
               ELSE IF hop_size = 0
               THEN Return(Put(B, r, Object([kind |-> "fallback", value |-> <<>>])), r)
               ELSE LET B1 == Put(B, r, Object(<<>>))
                        p == New(B1, c)
                        fr1 == [fr EXCEPT !.out = r, !.i = 0, !.pc = "window",
                                          !.length = NumWindows(Len(sig), window_size, hop_size)]
                    IN  IF Len(sig) < window_size
                        THEN Goto(Put(B1, p, Float64(PadShort(sig, window_size))),
                                  [fr1 EXCEPT !.x = p])
                        ELSE Goto(B1, fr1)
          [] fr.pc = "window" ->
               IF fr.i >= fr.length
               THEN LET bins == window_size \div 2
                    IN  IF fr.length * bins = 0
                        THEN Return(Put(B, r, Object([kind |-> "fallback", value |-> <<>>])), r)
                        ELSE Return(Put(B, r, Object([kind |-> "ok",
                                 value |-> Transpose(B[fr.out].data, fr.length, bins)])), r)
               ELSE Call(Put(B, r, Float64(TaperedWindow(sig, fr.i * hop_size, window_size))),
                         [fr EXCEPT !.pc = "append"], Frame("fft", r))
          [] fr.pc = "append" ->
               Goto(Put(B, fr.out, Object(Append(B[fr.out].data,
                                                 SpectrogramRow(AsComplex(B[fr.got]), window_size)))),
                    [fr EXCEPT !.i = fr.i + 1, !.pc = "window"])

\* Equalizer.get_frequency_response
ResponseEffect(c, fr, B) ==
    CASE fr.pc = "enter" ->
           LET grid == linspace(LowestFreq, HighestFreq, n_points)
               f == New(B, c)
           IN  IF grid.kind = "raised"
               THEN Return(Put(B, f, Object([op |-> "get_frequency_response", kind |-> "raised",
                                             error |-> grid.error])), f)
               ELSE LET B1 == Put(B, f, Float64(grid.value))
                        r == New(B1, c)
                    IN  Goto(Put(B1, r, Float64(Tab(Len(grid.value), LAMBDA i : R1))),
                             [fr EXCEPT !.fd = f, !.out = r, !.i = 1, !.pc = "band"])
      [] fr.pc = "band" ->
           LET bands == B[BandsRef].data
               r == New(B, c)
           IN  IF fr.i > Len(bands)
               THEN Return(Put(B, r, Object([op |-> "get_frequency_response", kind |-> "ok",
                        frequencies |-> B[fr.fd].data, magnitude |-> B[fr.out].data])), r)
               ELSE IF ~WellFormed(bands[fr.i])
               THEN Return(Put(B, r, Object([op |-> "get_frequency_response", kind |-> "raised",
                                             error |-> "KeyError"])), r)
               ELSE Goto(Put(B, fr.out, Float64(ResponseStep(B[fr.out].data, bands[fr.i], B[fr.fd].data))),
                         [fr EXCEPT !.i = fr.i + 1])

\* Equalizer.create_default_bands: log_freqs = np.logspace(...) and bands = [],
\* then one bands.append per iteration of the loop, then return bands
DefaultBandsEffect(c, fr, B) ==
    CASE fr.pc = "enter" ->
           LET log_freqs == logspace(params.min_freq, params.max_freq, params.num_bands + 1)
               f == New(B, c)
           IN  IF log_freqs.kind = "raised"
               THEN Return(Put(B, f, Object([op |-> "create_default_bands", kind |-> "raised",
                                             error |-> log_freqs.error])), f)
               ELSE LET B1 == Put(B, f, Float64(log_freqs.value))
                        r == New(B1, c)
                    IN  Goto(Put(B1, r, Object(<<>>)),
                             [fr EXCEPT !.fd = f, !.out = r, !.i = 1, !.pc = "band"])
      [] fr.pc = "band" ->
           IF fr.i > params.num_bands
           THEN LET r == New(B, c)
                IN  Return(Put(B, r, Object([op |-> "create_default_bands", kind |-> "ok",
                                             bands |-> B[fr.out].data])), r)
           ELSE Goto(Put(B, fr.out, Object(Append(B[fr.out].data,
                                                  DefaultBand(B[fr.fd].data, fr.i)))),
                     [fr EXCEPT !.i = fr.i + 1])

\* the step of caller c takes effect: on the heap, on its stack, and on what its
\* call returned when the outermost frame returns
Apply(c, eff) ==
    /\ bufs' = eff.bufs
    /\ CASE eff.kind = "goto" ->
              /\ stack' = [stack EXCEPT ![c] = <<eff.frame>> \o Tail(stack[c])]
              /\ UNCHANGED ret
         [] eff.kind = "call" ->
              /\ stack' = [stack EXCEPT ![c] = <<eff.callee, eff.frame>> \o Tail(stack[c])]
              /\ UNCHANGED ret
         [] eff.kind = "return" ->
              IF Len(stack[c]) = 1
              THEN /\ stack' = [stack EXCEPT ![c] = <<>>]
                   /\ ret' = [ret EXCEPT ![c] = [op |-> Head(stack[c]).fn, ref |-> eff.ref,
                                                 value |-> eff.bufs[eff.ref]]]
              ELSE /\ stack' = [stack EXCEPT ![c] =
                                   <<[stack[c][2] EXCEPT !.got = eff.ref]>> \o Tail(Tail(stack[c]))]
                   /\ UNCHANGED ret
    /\ UNCHANGED <<pc, args, instances, rounding, pow_rounding>>

Running(c, fn) == stack[c] # <<>> /\ Head(stack[c]).fn = fn

FftStep(c) == Running(c, "fft") /\ Apply(c, FftEffect(c, Head(stack[c]), bufs))

IfftStep(c) == Running(c, "ifft") /\ Apply(c, IfftEffect(c, Head(stack[c]), bufs))

EqualizerStep(c) ==
    Running(c, "apply_equalizer") /\ Apply(c, EqualizerEffect(c, Head(stack[c]), bufs))

SpectrumStep(c) ==
    Running(c, "compute_fft_spectrum") /\ Apply(c, SpectrumEffect(c, Head(stack[c]), bufs))

SpectrogramStep(c) ==
    Running(c, "compute_spectrogram") /\ Apply(c, SpectrogramEffect(c, Head(stack[c]), bufs))

FrequencyResponseStep(c) ==
    Running(c, "get_frequency_response") /\ Apply(c, ResponseEffect(c, Head(stack[c]), bufs))

DefaultBandsStep(c) ==
    Running(c, "create_default_bands") /\ Apply(c, DefaultBandsEffect(c, Head(stack[c]), bufs))

\* one signal of each length, of samples that differ from their neighbours
ConcSample(i) == <<Rat(1, 2), Rat(-1, 1), R0>>[((i - 1) % 3) + 1]
ConcSignals == {Tab(n, LAMBDA i : ConcSample(i)) : n \in 0..MaxConcLen}

ConcBandLists == {
    <<>>,
    <<[low_freq |-> 1, high_freq |-> 3, scale |-> Rat(2, 1)]>>,
    <<[low_freq |-> 0, high_freq |-> 20000, scale |-> Rat(1, 2)],
      [low_freq |-> 1, high_freq |-> 5, scale |-> R1]>>,
    <<[low_freq |-> 0, high_freq |-> 5]>> }

\* n_points and num_bands of the calls: three points and two bands, and with the
\* signals of at most one sample also the counts np.linspace and np.logspace raise on
ConcCounts(sig) ==
    {[n_points |-> 3, num_bands |-> 2]} \cup
    (IF Len(sig) <= 1 THEN {[n_points |-> -1, num_bands |-> -2]} ELSE {})

\* the array an operation is called on
ArgRef(op) == IF op = "ifft" THEN SpectrumRef ELSE SignalRef

InitConc ==
    /\ pc = "concurrent"
    /\ signal \in ConcSignals
    /\ signal_len = Len(signal)
    /\ signal_type = "ndarray"
    /\ frequency_bands \in ConcBandLists
    /\ sample_rate = 8
    /\ \E counts \in ConcCounts(signal) :
          /\ n_points = counts.n_points
          /\ params = [num_bands |-> counts.num_bands, min_freq |-> 20, max_freq |-> 20000,
                       window_size |-> 2, hop_size |-> 1]
    /\ instances = Constructed
    /\ bufs = Put(Put(Put(<<>>, SignalRef, Float64(signal)),
                      SpectrumRef, Complex128(fft(ToComplex(signal)))),
                  BandsRef, Object(frequency_bands))
    /\ stack \in [Callers -> {<<Frame(op, ArgRef(op))>> : op \in Ops}]
    /\ rounding \in Roundings
    /\ pow_rounding = "nearer"
    /\ ret = [c \in Callers |-> NoRet]

NextConc ==
    \E c \in Callers :
        \/ FftStep(c)
        \/ IfftStep(c)
        \/ EqualizerStep(c)
        \/ SpectrumStep(c)
        \/ SpectrogramStep(c)
        \/ FrequencyResponseStep(c)
        \/ DefaultBandsStep(c)

SpecConc == InitConc /\ [][NextConc]_vars

\* what the operation returns when it runs alone on the arguments
Alone(op) ==
    CASE op = "fft" ->
           IF Len(signal) <= 1 THEN Float64(signal) ELSE Complex128(fft(ToComplex(signal)))
      [] op = "ifft" -> Float64(RealParts(ifft(fft(ToComplex(signal)))))
      [] op = "compute_fft_spectrum" -> Object(compute_fft_spectrum(signal, sample_rate))
      [] op = "compute_spectrogram" ->
           LET alone == spectrogram_values(signal, params.window_size, params.hop_size)
           IN  Object([kind |-> alone.kind, value |-> alone.value])
      [] op = "apply_equalizer" ->
           Object(apply_equalizer(signal, signal_type, frequency_bands, sample_rate))
      [] op = "get_frequency_response" ->
           Object(get_frequency_response(frequency_bands, sample_rate, n_points))
      [] op = "create_default_bands" ->
           Object(create_default_bands(params.num_bands, params.min_freq, params.max_freq))

\* C14: no step of a call writes an attribute of the shared instances or an element
\* of the signal, spectrum or band list the callers were given, and in every
\* interleaving each call returns what it returns when it runs alone.
CallsIndependent ==
    pc = "concurrent" =>
        /\ instances = Constructed
        /\ bufs[SignalRef] = Float64(signal)
        /\ bufs[SpectrumRef] = Complex128(fft(ToComplex(signal)))
        /\ bufs[BandsRef] = Object(frequency_bands)
        /\ \A c \in Callers : ret[c] # NoRet => ret[c].value = Alone(ret[c].op)

\* caller a's transform of the shared 4-sample signal has returned, permuted and
\* combined in its own array, while caller b is inside the transform its
\* apply_equalizer called, between two butterfly stages
CallsIndependentWitness ==
    /\ pc = "concurrent"
    /\ Len(signal) = 4
    /\ ret["a"] # NoRet
    /\ ret["a"].op = "fft"
    /\ ret["a"].ref[1] = "a"
    /\ ret["a"].value = Complex128(fft(ToComplex(signal)))
    /\ ret["a"].value.data # ToComplex(signal)
    /\ Len(stack["b"]) = 2
    /\ stack["b"][1].fn = "fft"
    /\ stack["b"][1].pc = "stage"
    /\ stack["b"][1].length = 4
    /\ stack["b"][2].fn = "apply_equalizer"
    /\ bufs[SignalRef] = Float64(signal)

\* ---------------------------------------------------------------- properties of the band loop
\* the gain the band loop gives each bin: what it leaves of a spectrum of ones
Gains(bands, freqs) ==
    LET ones == Tab(Len(freqs), LAMBDA i : CReal(R1))
    IN  BandLoop(LoopStart(ones), bands, 1, ones, freqs).output_freq

\* conj(fft(conj(X))) / n, the inverse transform before np.real
ComplexInverse(X) ==
    LET x_fft == fft(Conjugated(X))
    IN  Tab(Len(x_fft), LAMBDA i : CScale(CConj(x_fft[i]), Rat(1, Len(X))))

\* C15: after the band loop, bins k and n - k (0 < k < n) have received the same
\* gain; the spectrum handed to the inverse transform is conjugate-symmetric as
\* the transform of the real signal was, and its inverse transform is real.
MirroredGain ==
    (pc = "equalized" /\ ret.locals.ran) =>
        LET n == Len(ret.locals.freqs)
            gains == Gains(frequency_bands, ret.locals.freqs)
            X == ret.locals.output_freq
            inverse == ComplexInverse(X)
        IN  /\ \A k \in 1..(n - 1) :
                  /\ gains[k + 1] = gains[n - k + 1]
                  /\ X[k + 1] = CScale(ret.locals.freq_domain[k + 1], gains[k + 1][1])
                  /\ ret.locals.freq_domain[n - k + 1] = CConj(ret.locals.freq_domain[k + 1])
                  /\ X[n - k + 1] = CConj(X[k + 1])
            /\ \A i \in 1..Len(inverse) : inverse[i] = CConj(inverse[i])

MirroredGainWitness ==
    /\ pc = "equalized"
    /\ ret.locals.ran
    /\ sample_rate = 8
    /\ frequency_bands = <<[low_freq |-> 1, high_freq |-> 3, scale |-> Rat(2, 1)]>>
    /\ Len(ret.locals.freqs) = 4
    /\ ret.locals.freqs[2] = RInt(2)
    /\ ret.locals.freqs[4] = RInt(-2)
    /\ ret.locals.freq_domain[2] # CZero
    /\ ret.locals.freq_domain[2] # ret.locals.freq_domain[4]
    /\ ret.locals.output_freq[2] = CScale(ret.locals.freq_domain[2], Rat(2, 1))
    /\ ret.locals.output_freq[4] = CScale(ret.locals.freq_domain[4], Rat(2, 1))
    /\ ret.locals.output_freq[1] = ret.locals.freq_domain[1]

\* ---------------------------------------------------------------- spectrum calls, lengths only
\* compute_fft_spectrum on the lengths: whether the buffer is decimated, the step,
\* the number of samples handed to fft, the length of the transform and the
\* number of points returned
compute_fft_spectrum_shape(len, sr) ==
    [op |-> "compute_fft_spectrum",
     decimated |-> len > TargetLength,
     step |-> DecimationStep(len),
     handed |-> DecimatedLen(len),
     n |-> FftLen(DecimatedLen(len)),
     points |-> Cardinality(SpectrumAssigns(len, sr))]

InitSpectrum ==
    /\ pc = "start"
    /\ signal = "untracked"
    /\ signal_len \in 0..MaxSpectrumLen
    /\ signal_type = "ndarray"
    /\ frequency_bands = <<>>
    /\ sample_rate = 44100
    /\ n_points = 0
    /\ params = NoParams
    /\ instances = Constructed
    /\ bufs = NoBufs
    /\ stack = NoStack
    /\ rounding = "inside"
    /\ pow_rounding = "nearer"
    /\ ret = NoRet

CallComputeFftSpectrum ==
    /\ pc = "start"
    /\ pc' = "spectrum"
    /\ ret' = compute_fft_spectrum_shape(signal_len, sample_rate)
    /\ UNCHANGED <<args, heap, rounding, pow_rounding>>

NextSpectrum == CallComputeFftSpectrum

SpecSpectrum == InitSpectrum /\ [][NextSpectrum]_vars

\* C17: a buffer longer than target_length is decimated by N = ceil(len /
\* target_length), so the transform is handed at most target_length samples; a
\* buffer of at most target_length samples is handed over whole.
DecimationBound ==
    pc = "spectrum" =>
        /\ signal_len > TargetLength =>
               /\ ret.decimated
               /\ ret.step = CeilDiv(signal_len, TargetLength)
               /\ ret.handed = CeilDiv(signal_len, CeilDiv(signal_len, TargetLength))
        /\ ret.handed <= TargetLength
        /\ signal_len <= TargetLength => ~ret.decimated /\ ret.handed = signal_len

\* ---------------------------------------------------------------- the bit-reversal loop
\* The first loop of fft_iterative, one iteration of `for i in range(1, n)` a step,
\* on a buffer of a power-of-two length; the loop is then run a second time on
\* its own result.  ret holds the buffer x, the loop variables i and j, the pass,
\* and the buffer the first pass left.
ReverseSignals ==
    UNION {{Tab(Pow2(e), LAMBDA i : RInt((i - 1 + r) % Pow2(e))) : r \in 0..(Pow2(e) - 1)} :
              e \in 1..MaxReverseBits}

InitReverse ==
    /\ pc = "start"
    /\ signal \in ReverseSignals
    /\ signal_len = Len(signal)
    /\ signal_type = "ndarray"
    /\ frequency_bands = <<>>
    /\ sample_rate = 8
    /\ n_points = 0
    /\ params = NoParams
    /\ instances = Constructed
    /\ bufs = NoBufs
    /\ stack = NoStack
    /\ rounding = "inside"
    /\ pow_rounding = "nearer"
    /\ ret = NoRet

\* n = len(x); x = x.astype(complex); j = 0
EnterFftIterative ==
    /\ pc = "start"
    /\ pc' = "bitrev"
    /\ ret' = [op |-> "fft_iterative", x |-> ToComplex(signal), i |-> 1, j |-> 0,
               pass |-> 1, once |-> <<>>]
    /\ UNCHANGED <<args, heap, rounding, pow_rounding>>

BitReverseIteration ==
    /\ pc = "bitrev"
    /\ ret.i < Len(ret.x)
    /\ LET st == BitReverseStep(ret.x, ret.i, ret.j)
       IN  ret' = [ret EXCEPT !.x = st.x, !.j = st.j, !.i = ret.i + 1]
    /\ UNCHANGED <<pc, args, heap, rounding, pow_rounding>>

\* the loop has ended: run it again on the buffer it left, then stop
BitReverseEnd ==
    /\ pc = "bitrev"
    /\ ret.i >= Len(ret.x)
    /\ IF ret.pass = 1
       THEN /\ ret' = [ret EXCEPT !.once = ret.x, !.pass = 2, !.i = 1, !.j = 0]
            /\ pc' = "bitrev"
       ELSE /\ ret' = ret
            /\ pc' = "permuted"
    /\ UNCHANGED <<args, heap, rounding, pow_rounding>>

NextReverse == EnterFftIterative \/ BitReverseIteration \/ BitReverseEnd

SpecReverse == InitReverse /\ [][NextReverse]_vars

\* i written on `bits` bits, read backwards
RECURSIVE ReversedBits(_, _)
ReversedBits(i, bits) ==
    IF bits = 0 THEN 0 ELSE (i % 2) * Pow2(bits - 1) + ReversedBits(i \div 2, bits - 1)

\* C18: on a power-of-two length n >= 2 the loop moves the element at index i to
\* the index that is i with its log2(n) bits reversed; at every iteration j stays
\* in 0..n-1 and the buffer holds the elements it started with, each once; a
\* second run of the loop restores the original order.
BitReversalPermutes ==
    pc \in {"bitrev", "permuted"} =>
        LET n == Len(signal)
            x0 == ToComplex(signal)
        IN  /\ ret.j \in 0..(n - 1)
            /\ Len(ret.x) = n
            /\ \A a \in 1..n : Cardinality({b \in 1..n : ret.x[b] = x0[a]}) = 1
            /\ ret.pass = 2 =>
                   \A a \in 0..(n - 1) : ret.once[ReversedBits(a, CeilLog2(n)) + 1] = x0[a + 1]
            /\ pc = "permuted" => ret.x = x0

BitReversalPermutesWitness ==
    /\ pc = "permuted"
    /\ Len(signal) = 8
    /\ \A a \in 1..8 : signal[a] = RInt(a - 1)
    /\ ret.once = ToComplex(<<RInt(0), RInt(4), RInt(2), RInt(6), RInt(1), RInt(5), RInt(3), RInt(7)>>)
    /\ ret.x = ToComplex(signal)

====
